---- MODULE Spec2Model ----
(***************************************************************************)
(* Model of installer/ux_installer/install.py: one run of main(), the      *)
(* functions it calls, the install directory on disk, the log file and the *)
(* console.  Every external collaborator (file system, user at the prompt, *)
(* subprocesses, HTTP) answers nondeterministically.                       *)
(*                                                                         *)
(* main() is cut at its blocking calls: one action per collaborator call   *)
(* and one per branch on its result.  download_latest_wheel is cut once    *)
(* more, between its two HTTP requests.  platform.system() only changes    *)
(* what the model sees in create_shortcuts, so it is answered there.       *)
(* Whether the log file can be opened for appending is a condition of the  *)
(* whole run; independently of it the open fails while the install         *)
(* directory does not exist.                                               *)
(***************************************************************************)
EXTENDS Integers, Sequences, FiniteSets, TLC

\* ------------------------------------------------------------------ bounds
\* Longest asset list a release-feed response carries.
MaxAssets == 3

\* --------------------------------------------------------------- constants
\* Minimum size in bytes of a downloaded wheel (install.py:301).
MIN_WHEEL_SIZE == 10000

\* ------------------------------------------------------------------ values
None == "None"
NoName == << >>

WHL == <<".", "w", "h", "l">>
ToolTarGz == <<"t", "o", "o", "l", ".", "t", "a", "r", ".", "g", "z">>
ToolWhl == <<"t", "o", "o", "l", ".", "w", "h", "l">>
ReadmeTxt == <<"r", "e", "a", "d", "m", "e", ".", "t", "x", "t">>
OtherWhl == <<"b", ".", "w", "h", "l">>
WhlTxt == <<"a", ".", "w", "h", "l", ".", "t", "x", "t">>

\* Asset names a release feed may list.
AssetNames == {ToolTarGz, ToolWhl, ReadmeTxt, OtherWhl, WhlTxt}

\* Ordered asset lists of a feed response, shortest first up to MaxAssets.
AssetLists == UNION {[1..n -> AssetNames] : n \in 0..MaxAssets}

\* Sizes in bytes of the file a download writes.
FileSizes == {0, 9999, 10000, 50000}

\* What the user types at a prompt.
UserInputs == {"y", "Y", "n", ""}

\* Standard output of the locate command, as lines.
ProbeOutputs == {<< >>, <<"conda1">>, <<"conda1", "conda2">>}

\* Path install_miniconda returns.
MinicondaPath == "miniconda3/conda"

\* ------------------------------------------------------------ pure helpers
\* str.endswith
EndsWith(name, suffix) ==
    /\ Len(name) >= Len(suffix)
    /\ SubSeq(name, Len(name) - Len(suffix) + 1, Len(name)) = suffix

\* str.lower on the answers a user may type
Lower(s) == IF s = "Y" THEN "y" ELSE s

\* result.stdout.strip().split("\n")[0]
FirstLine(out) == IF out = << >> THEN "" ELSE out[1]

IsPrefix(s, t) == Len(s) <= Len(t) /\ SubSeq(t, 1, Len(s)) = s

\* The for loop of download_latest_wheel: the first asset, in feed order,
\* whose name ends in ".whl"; NoName when the loop ends without a break.
RECURSIVE FirstWheelFrom(_, _)
FirstWheelFrom(assets, i) ==
    IF i > Len(assets) THEN NoName
    ELSE IF EndsWith(assets[i], WHL) THEN assets[i]
    ELSE FirstWheelFrom(assets, i + 1)

\* A loop without the break: the last matching asset wins.
RECURSIVE LastWheelFrom(_, _)
LastWheelFrom(assets, i) ==
    IF i < 1 THEN NoName
    ELSE IF EndsWith(assets[i], WHL) THEN assets[i]
    ELSE LastWheelFrom(assets, i - 1)

SelectLastWheel(assets) == LastWheelFrom(assets, Len(assets))

SelectWheel(assets) == FirstWheelFrom(assets, 1)

\* A size check that only rejects an empty file.
TooSmallOnlyEmpty(size) == size < 1

\* A size check that also rejects a file of exactly the threshold size.
TooSmallAtThreshold(size) == size <= MIN_WHEEL_SIZE

\* file_size < 10000
TooSmall(size) == size < MIN_WHEEL_SIZE

\* ------------------------------------------------------------------- state
VARIABLES
    args,        \* parsed command line: [yes, no_shortcuts]
    disk,        \* the install directory: [dir, old, env, wheels, wheel, wheelSize, logExists, logLines]
    disk0,       \* the install directory as it was when the run started
    condaHome,   \* a runtime manager installed by this run under ~/miniconda3
    console,     \* lines shown on the console, in order
    pc,          \* position of main()
    m,           \* local variables of main()
    release,     \* locals of download_latest_wheel between its two requests
    exitCode,    \* value main() returned: "none", "0" or "1"
    calls,       \* number of times each collaborator or prompt was used
    obs,         \* what the collaborators answered; an answer main() does not
                 \* keep is forgotten once main() has branched on the result
    reported,    \* the step that reported failure, "none" if none did
    logWritable  \* whether open(LOG_FILE_PATH, "a") can succeed during this run

vars == <<args, disk, disk0, condaHome, console, pc, m, release,
          exitCode, calls, obs, reported, logWritable>>

Collaborators == {"prompt_remove", "prompt_conda", "probe_cleanup", "env_remove",
                  "rmtree", "probe", "install_miniconda", "create_conda_env",
                  "download_latest_wheel", "install_wheel", "create_shortcuts"}

\* ---------------------------------------------------------------- logging
WARN == "WARNING: Failed to write to log file"

\* log(): open(LOG_FILE_PATH, "a") and write, for each message in turn.
Logs(d, msgs, written) ==
    IF written
    THEN [d EXCEPT !.logExists = TRUE, !.logLines = @ \o msgs]
    ELSE d

\* log(): what the console shows: each message, followed by the warning when
\* the write failed.
Echo(msgs, written) ==
    IF written THEN msgs
    ELSE [i \in 1..(2 * Len(msgs)) |->
            IF i % 2 = 1 THEN msgs[(i + 1) \div 2] ELSE WARN]

\* The open succeeds: the file is writable and the install directory exists.
Written(d) == logWritable /\ d.dir

\* main() moves on to newpc having logged msgs (after showing `shown`).
Go(newpc, d, shown, msgs) ==
    /\ pc' = newpc
    /\ disk' = Logs(d, msgs, Written(d))
    /\ console' = console \o shown \o Echo(msgs, Written(d))

\* return code
Return(code, d, shown, msgs) ==
    /\ Go("done", d, shown, msgs)
    /\ exitCode' = code

\* An exception leaves main().
Raise ==
    /\ pc' = "raised"
    /\ UNCHANGED <<disk, console, exitCode>>

Frame == UNCHANGED <<args, disk0, logWritable>>

Called(c) == calls' = [calls EXCEPT ![c] = @ + 1]

\* os.listdir(install_dir) is non-empty
NonEmpty(d) == d.dir /\ (d.old \/ d.env \/ d.wheels \/ d.logExists)

AbsentDisk ==
    [dir |-> FALSE, old |-> FALSE, env |-> FALSE, wheels |-> FALSE,
     wheel |-> NoName, wheelSize |-> 0, logExists |-> FALSE, logLines |-> << >>]

\* Install directories a run may start from: absent, empty, or holding
\* other files, an environment, an earlier log, or all of a previous
\* installation.
InitialDisks ==
    {AbsentDisk} \cup
    {[AbsentDisk EXCEPT !.dir = TRUE, !.old = c[1], !.env = c[2], !.logExists = c[3],
                        !.logLines = IF c[3] THEN <<"earlier run">> ELSE << >>] :
        c \in {<<FALSE, FALSE, FALSE>>, <<TRUE, FALSE, FALSE>>, <<FALSE, TRUE, FALSE>>,
               <<FALSE, FALSE, TRUE>>, <<TRUE, TRUE, TRUE>>}}

Init ==
    /\ args \in [yes : BOOLEAN, no_shortcuts : BOOLEAN]
    /\ disk \in InitialDisks
    /\ disk0 = disk
    /\ condaHome = FALSE
    /\ console = << >>
    /\ pc = "start"
    /\ m = [user_input |-> None, conda_installed |-> FALSE, conda_path |-> None,
            miniconda_success |-> FALSE, env_success |-> FALSE,
            wheel_path |-> NoName, install_success |-> FALSE,
            shortcut_success |-> FALSE]
    /\ release = [assets |-> << >>, wheel_asset |-> NoName]
    /\ exitCode = "none"
    /\ calls = [c \in Collaborators |-> 0]
    /\ obs = [rm |-> "none", envRemove |-> "none", probeRc |-> "none",
              probeOut |-> << >>, mcDownload |-> "none", mcInstall |-> "none",
              mcInit |-> "none", envCreate |-> "none", feed |-> "none",
              download |-> "none", pip |-> "none", script |-> "none"]
    /\ reported = "none"
    /\ logWritable \in BOOLEAN

\* ------------------------------------------------------------------ main()
\* Lines 474-485: normalise the path, set LOG_FILE_PATH, create the install
\* directory, log the start of the run.
StartMsgs == <<"*** INSTALLATION STARTED ***", "Installing AMD AI UX to: <install_dir>">>

Start ==
    /\ pc = "start"
    /\ Frame
    /\ UNCHANGED <<condaHome, m, release, calls, obs, reported>>
    /\ \E mk \in {"ok", "raise"} :
        IF mk = "raise"
        THEN Raise
        ELSE /\ Go("check_existing", [disk EXCEPT !.dir = TRUE], << >>, StartMsgs)
             /\ UNCHANGED exitCode

\* Lines 488-497: is there an existing installation, and may it be removed.
FoundMsg == "An existing installation was found at: <install_dir>"
AutoMsg == "Automatically removing existing installation due to '--yes' flag"

CheckExisting ==
    /\ pc = "check_existing"
    /\ Frame
    /\ UNCHANGED <<condaHome, m, release, calls, obs, reported, exitCode>>
    /\ \E ls \in {"ok", "raise"} :
        IF ls = "raise"
        THEN Raise
        ELSE IF NonEmpty(disk)
        THEN IF ~args.yes
             THEN Go("prompt_remove", disk, << >>, <<FoundMsg>>)
             ELSE Go("remove_env", disk, << >>, <<FoundMsg, AutoMsg>>)
        ELSE Go("check_conda", disk, << >>, << >>)

\* Lines 492-495: the confirmation prompt of the cleanup.
RemovePrompt == "Would you like to remove it and continue with the installation? (y/n): "
CancelMsg == "Installation cancelled by user"

\* The prompt going on to step 2 after a positive answer, the cleanup of
\* lines 499-517 left out.
PromptRemoveSkipsCleanup ==
    /\ pc = "prompt_remove"
    /\ Frame
    /\ UNCHANGED <<condaHome, release, obs, reported>>
    /\ Called("prompt_remove")
    /\ \/ /\ pc' = "raised"
          /\ console' = console \o <<RemovePrompt>>
          /\ UNCHANGED <<disk, exitCode, m>>
       \/ \E inp \in UserInputs :
            /\ m' = [m EXCEPT !.user_input = inp]
            /\ IF Lower(inp) # "y"
               THEN Return("1", disk, <<RemovePrompt>>, <<CancelMsg>>)
               ELSE /\ Go("check_conda", disk, <<RemovePrompt>>, << >>)
                    /\ UNCHANGED exitCode

\* The prompt with the `return 1` of a negative answer left out.
PromptRemoveNoReturn ==
    /\ pc = "prompt_remove"
    /\ Frame
    /\ UNCHANGED <<condaHome, release, obs, reported, exitCode>>
    /\ Called("prompt_remove")
    /\ \E inp \in UserInputs :
        /\ m' = [m EXCEPT !.user_input = inp]
        /\ Go("remove_env", disk, <<RemovePrompt>>,
              IF Lower(inp) # "y" THEN <<CancelMsg>> ELSE << >>)

PromptRemove ==
    /\ pc = "prompt_remove"
    /\ Frame
    /\ UNCHANGED <<condaHome, release, obs, reported>>
    /\ Called("prompt_remove")
    /\ \/ /\ pc' = "raised"
          /\ console' = console \o <<RemovePrompt>>
          /\ UNCHANGED <<disk, exitCode, m>>
       \/ \E inp \in UserInputs :
            /\ m' = [m EXCEPT !.user_input = inp]
            /\ IF Lower(inp) # "y"
               THEN Return("1", disk, <<RemovePrompt>>, <<CancelMsg>>)
               ELSE /\ Go("remove_env", disk, <<RemovePrompt>>, << >>)
                    /\ UNCHANGED exitCode

\* check_conda(), lines 67-99: the result and the messages it logs, from the
\* locate command's exit status ("raise" when running it raised) and output.
CheckConda(rc, out) ==
    IF rc = "0"
    THEN [installed |-> TRUE, path |-> FirstLine(out),
          msgs |-> <<"Checking if conda is installed...", "Conda found at: <conda_path>">>]
    ELSE IF rc = "raise"
    THEN [installed |-> FALSE, path |-> None,
          msgs |-> <<"Checking if conda is installed...", "Error checking for conda: <e>">>]
    ELSE [installed |-> FALSE, path |-> None,
          msgs |-> <<"Checking if conda is installed...", "Conda not found in PATH">>]

\* Answers of the locate command.
ProbeAnswers ==
    {<<"0", out>> : out \in ProbeOutputs} \cup {<<"1", << >>>>, <<"raise", << >>>>}

\* Outcomes of subprocess.run([conda_path, ...], check=False): an exit status,
\* or an exception; an empty path cannot be executed.
RunOutcomes(path) == IF path = "" THEN {"raise"} ELSE {"0", "1", "raise"}

\* Lines 499-507: best-effort removal of the environment through conda.
RemovingMsg == "Removing existing installation..."

RemoveEnv ==
    /\ pc = "remove_env"
    /\ Frame
    /\ UNCHANGED <<condaHome, m, release, reported, exitCode>>
    /\ IF ~disk.env
       THEN /\ Go("rmtree", disk, << >>, <<RemovingMsg>>)
            /\ UNCHANGED <<calls, obs>>
       ELSE \E ans \in ProbeAnswers :
              LET r == CheckConda(ans[1], ans[2])
                  msgs == <<RemovingMsg>> \o r.msgs
              IN  IF ~r.installed
                  THEN /\ Go("rmtree", disk, << >>, msgs)
                       /\ Called("probe_cleanup")
                       /\ UNCHANGED obs
                  ELSE \E run \in RunOutcomes(r.path) :
                        /\ calls' = [calls EXCEPT !["probe_cleanup"] = @ + 1,
                                                  !["env_remove"] = @ + 1]
                        /\ obs' = [obs EXCEPT !.envRemove = run]
                        /\ Go(IF run = "raise" THEN "raised" ELSE "rmtree",
                              [disk EXCEPT !.env = IF run = "0" THEN FALSE ELSE @],
                              << >>, msgs)

\* What shutil.rmtree may leave behind when it fails part-way.
PartlyDeleted(d) ==
    {[d EXCEPT !.old = @ /\ o, !.env = @ /\ e, !.logExists = @ /\ l,
               !.logLines = IF d.logExists /\ l THEN @ ELSE << >>] :
        o \in BOOLEAN, e \in BOOLEAN, l \in BOOLEAN}

\* Lines 509-517: delete the install directory and create it again.
DeletedMsg == "Deleted all contents of install directory"
RemoveFailedMsgs ==
    <<"Failed to remove existing installation: <e>",
      "Please close any applications using AMD AI UX and try again">>

\* The deletion with the `return 1` of the except branch left out.
RemoveDirNoReturn ==
    /\ pc = "rmtree"
    /\ Frame
    /\ UNCHANGED <<condaHome, m, release, exitCode>>
    /\ Called("rmtree")
    /\ \/ /\ Go("check_conda", [AbsentDisk EXCEPT !.dir = TRUE], << >>, <<DeletedMsg>>)
          /\ obs' = [obs EXCEPT !.rm = "ok", !.envRemove = "none"]
          /\ UNCHANGED reported
       \/ \E d \in PartlyDeleted(disk) :
            /\ Go("check_conda", d, << >>, RemoveFailedMsgs)
            /\ obs' = [obs EXCEPT !.rm = "rmtree failed", !.envRemove = "none"]
            /\ reported' = "cleanup"

RemoveDir ==
    /\ pc = "rmtree"
    /\ Frame
    /\ UNCHANGED <<condaHome, m, release>>
    /\ Called("rmtree")
    /\ \/ /\ Go("check_conda", [AbsentDisk EXCEPT !.dir = TRUE], << >>, <<DeletedMsg>>)
          /\ obs' = [obs EXCEPT !.rm = "ok", !.envRemove = "none"]
          /\ UNCHANGED <<reported, exitCode>>
       \/ \E d \in PartlyDeleted(disk) :
            /\ Return("1", d, << >>, RemoveFailedMsgs)
            /\ obs' = [obs EXCEPT !.rm = "rmtree failed", !.envRemove = "none"]
            /\ reported' = "cleanup"
       \/ /\ Return("1", AbsentDisk, << >>, RemoveFailedMsgs)
          /\ obs' = [obs EXCEPT !.rm = "makedirs failed", !.envRemove = "none"]
          /\ reported' = "cleanup"

\* Line 520: probe for the runtime manager.
CheckCondaStep ==
    /\ pc = "check_conda"
    /\ Frame
    /\ UNCHANGED <<condaHome, release, reported, exitCode>>
    /\ Called("probe")
    /\ \E ans \in ProbeAnswers :
        LET r == CheckConda(ans[1], ans[2])
        IN  /\ m' = [m EXCEPT !.conda_installed = r.installed, !.conda_path = r.path]
            /\ obs' = [obs EXCEPT !.probeRc = ans[1], !.probeOut = ans[2]]
            /\ Go("conda_branch", disk, << >>, r.msgs)

\* The branch with the test of args.yes at line 525 left out.
CondaBranchAlwaysPrompts ==
    /\ pc = "conda_branch"
    /\ Frame
    /\ UNCHANGED <<condaHome, m, release, calls, reported, exitCode>>
    /\ obs' = [obs EXCEPT !.probeRc = "none", !.probeOut = << >>]
    /\ IF m.conda_installed
       THEN Go("create_env", disk, << >>, << >>)
       ELSE Go("prompt_conda", disk, << >>, <<"Conda not installed">>)

\* Lines 522-525: without a runtime manager, ask or go on to install one.
CondaBranch ==
    /\ pc = "conda_branch"
    /\ Frame
    /\ UNCHANGED <<condaHome, m, release, calls, reported, exitCode>>
    /\ obs' = [obs EXCEPT !.probeRc = "none", !.probeOut = << >>]
    /\ IF m.conda_installed
       THEN Go("create_env", disk, << >>, << >>)
       ELSE Go(IF args.yes THEN "install_miniconda" ELSE "prompt_conda",
                 disk, << >>, <<"Conda not installed">>)

\* Lines 526-529: the confirmation prompt of the runtime-manager install.
CondaPrompt == "Conda is not installed. Would you like to install Miniconda? (y/n): "

PromptConda ==
    /\ pc = "prompt_conda"
    /\ Frame
    /\ UNCHANGED <<condaHome, release, obs, reported>>
    /\ Called("prompt_conda")
    /\ \/ /\ pc' = "raised"
          /\ console' = console \o <<CondaPrompt>>
          /\ UNCHANGED <<disk, exitCode, m>>
       \/ \E inp \in UserInputs :
            /\ m' = [m EXCEPT !.user_input = inp]
            /\ IF Lower(inp) # "y"
               THEN Return("1", disk, <<CondaPrompt>>, <<CancelMsg>>)
               ELSE /\ Go("install_miniconda", disk, <<CondaPrompt>>, << >>)
                    /\ UNCHANGED exitCode

\* install_miniconda(), lines 102-199, from the outcome of the download
\* (requests.get, raise_for_status, writing the installer), of the installer
\* subprocess and of `conda init`: the result and the messages logged.
MinicondaHead ==
    <<"-------------", "- Miniconda -", "-------------",
      "Downloading Miniconda installer...", "Downloading from: <installer_url>">>
MinicondaError == "Error installing Miniconda: <e>"

\* install_miniconda() treating a non-zero exit of `conda init` as a failure.
InstallMinicondaResultChecksInit(dl, inst, init) ==
    IF dl = "raise"
    THEN [success |-> FALSE, path |-> None, installed |-> FALSE,
          msgs |-> MinicondaHead \o <<MinicondaError>>]
    ELSE LET run == MinicondaHead \o <<"Downloaded installer to: <installer_path>",
                                       "Installing Miniconda to: <miniconda_path>">>
         IN  IF inst = "raise"
             THEN [success |-> FALSE, path |-> None, installed |-> FALSE,
                   msgs |-> run \o <<MinicondaError>>]
             ELSE IF inst # "0"
             THEN [success |-> FALSE, path |-> None, installed |-> FALSE,
                   msgs |-> run \o <<"Miniconda installation failed with code: <returncode>">>]
             ELSE LET done == run \o <<"Miniconda installation completed successfully",
                                       "Initializing conda...">>
                  IN  IF init # "0"
                      THEN [success |-> FALSE, path |-> None, installed |-> TRUE,
                            msgs |-> done \o <<MinicondaError>>]
                      ELSE [success |-> TRUE, path |-> MinicondaPath, installed |-> TRUE,
                            msgs |-> done]

InstallMinicondaResult(dl, inst, init) ==
    IF dl = "raise"
    THEN [success |-> FALSE, path |-> None, installed |-> FALSE,
          msgs |-> MinicondaHead \o <<MinicondaError>>]
    ELSE LET run == MinicondaHead \o <<"Downloaded installer to: <installer_path>",
                                       "Installing Miniconda to: <miniconda_path>">>
         IN  IF inst = "raise"
             THEN [success |-> FALSE, path |-> None, installed |-> FALSE,
                   msgs |-> run \o <<MinicondaError>>]
             ELSE IF inst # "0"
             THEN [success |-> FALSE, path |-> None, installed |-> FALSE,
                   msgs |-> run \o <<"Miniconda installation failed with code: <returncode>">>]
             ELSE LET done == run \o <<"Miniconda installation completed successfully",
                                       "Initializing conda...">>
                  IN  IF init = "raise"
                      THEN [success |-> FALSE, path |-> None, installed |-> TRUE,
                            msgs |-> done \o <<MinicondaError>>]
                      ELSE [success |-> TRUE, path |-> MinicondaPath, installed |-> TRUE,
                            msgs |-> done]

\* Outcomes of the three stages; a stage not reached answers "none".
MinicondaAnswers ==
    {<<"raise", "none", "none">>, <<"ok", "raise", "none">>, <<"ok", "1", "none">>,
     <<"ok", "0", "raise">>, <<"ok", "0", "0">>, <<"ok", "0", "1">>}

\* Line 532.
InstallMiniconda ==
    /\ pc = "install_miniconda"
    /\ Frame
    /\ UNCHANGED <<release, exitCode>>
    /\ Called("install_miniconda")
    /\ \E a \in MinicondaAnswers :
        LET r == InstallMinicondaResult(a[1], a[2], a[3])
        IN  /\ m' = [m EXCEPT !.miniconda_success = r.success, !.conda_path = r.path]
            /\ obs' = [obs EXCEPT !.mcDownload = a[1], !.mcInstall = a[2], !.mcInit = a[3]]
            /\ condaHome' = r.installed
            /\ reported' = IF r.success THEN reported ELSE "miniconda"
            /\ Go("miniconda_check", disk, << >>, r.msgs)

\* The check with the `return 1` left out.
MinicondaCheckNoReturn ==
    /\ pc = "miniconda_check"
    /\ Frame
    /\ UNCHANGED <<condaHome, m, release, calls, reported, exitCode>>
    /\ obs' = [obs EXCEPT !.mcInit = "none"]
    /\ Go("create_env", disk, << >>,
          IF ~m.miniconda_success
          THEN <<"Failed to install Miniconda. Installation will be aborted.">>
          ELSE << >>)

\* The check trying the installer a second time before giving up.
MinicondaCheckRetries ==
    /\ pc = "miniconda_check"
    /\ Frame
    /\ UNCHANGED <<condaHome, m, release, calls, reported>>
    /\ obs' = [obs EXCEPT !.mcInit = "none"]
    /\ IF ~m.miniconda_success
       THEN IF calls["install_miniconda"] < 2
            THEN /\ Go("install_miniconda", disk, << >>, << >>)
                 /\ UNCHANGED exitCode
            ELSE Return("1", disk, << >>,
                        <<"Failed to install Miniconda. Installation will be aborted.">>)
       ELSE /\ Go("create_env", disk, << >>, << >>)
            /\ UNCHANGED exitCode

\* Lines 534-536.
MinicondaCheck ==
    /\ pc = "miniconda_check"
    /\ Frame
    /\ UNCHANGED <<condaHome, m, release, calls, reported>>
    /\ obs' = [obs EXCEPT !.mcInit = "none"]
    /\ IF ~m.miniconda_success
       THEN Return("1", disk, << >>,
                     <<"Failed to install Miniconda. Installation will be aborted.">>)
       ELSE /\ Go("create_env", disk, << >>, << >>)
            /\ UNCHANGED exitCode

\* create_conda_env(), lines 202-240, from the outcome of `conda create`.
EnvHead ==
    <<"---------------------", "- Conda Environment -", "---------------------",
      "Creating a Python 3.11 environment at: <env_path>">>

CreateCondaEnvResult(run) ==
    IF run = "0"
    THEN [success |-> TRUE,
          msgs |-> EnvHead \o <<"Successfully created conda environment at: <env_path>">>]
    ELSE IF run = "raise"
    THEN [success |-> FALSE,
          msgs |-> EnvHead \o <<"Error creating conda environment: <e>">>]
    ELSE [success |-> FALSE,
          msgs |-> EnvHead \o <<"Failed to create conda environment: <stderr>">>]

\* Lines 539-540.  A failed `conda create` may leave a partial environment.
CreateEnv ==
    /\ pc = "create_env"
    /\ Frame
    /\ UNCHANGED <<condaHome, release, exitCode>>
    /\ Called("create_conda_env")
    /\ \E run \in RunOutcomes(m.conda_path) :
        LET r == CreateCondaEnvResult(run)
        IN  /\ m' = [m EXCEPT !.env_success = r.success]
            /\ obs' = [obs EXCEPT !.envCreate = run]
            /\ reported' = IF r.success THEN reported ELSE "env"
            /\ \E e \in IF run = "0" THEN {TRUE}
                        ELSE IF run = "1" THEN {disk.env, TRUE} ELSE {disk.env} :
                    Go("env_check", [disk EXCEPT !.env = e], << >>, r.msgs)

\* Lines 542-554: abort, or work out python_path and create the wheels directory.
EnvFailedMsg == "Failed to create the Python environment. Installation will be aborted."

\* The check with the `return 1` left out.
EnvCheckNoReturn ==
    /\ pc = "env_check"
    /\ Frame
    /\ UNCHANGED <<condaHome, m, release, calls, obs, reported, exitCode>>
    /\ Go("fetch_feed", [disk EXCEPT !.wheels = TRUE], << >>,
          IF ~m.env_success THEN <<EnvFailedMsg>> ELSE << >>)

EnvCheck ==
    /\ pc = "env_check"
    /\ Frame
    /\ UNCHANGED <<condaHome, m, release, calls, obs, reported>>
    /\ IF ~m.env_success
       THEN Return("1", disk, << >>, <<EnvFailedMsg>>)
       ELSE \/ Raise
            \/ /\ Go("fetch_feed", [disk EXCEPT !.wheels = TRUE], << >>, << >>)
               /\ UNCHANGED exitCode

\* download_latest_wheel(), lines 254-290: up to the second request.  The
\* result of the release-feed request and of the asset loop: the asset chosen,
\* whether the function returns None here, and the messages logged.
FetchHead ==
    <<"******************************", "* Open WebUI Download Module *",
      "******************************", "Downloading the latest Open WebUI wheel file...",
      "Fetching latest release information from: <api_url>">>
FetchError == "Error during API request or download: <e>"

FetchFeedResult(status, assets, json) ==
    IF status = "raise"
    THEN [wheel_asset |-> NoName, returns |-> TRUE, msgs |-> FetchHead \o <<FetchError>>]
    ELSE IF status # "200"
    THEN [wheel_asset |-> NoName, returns |-> TRUE,
          msgs |-> FetchHead \o
                   <<"Failed to fetch release information. Status code: <status_code>",
                     IF json THEN "Error details: <error_info>"
                             ELSE "Response content: <text> with error: <e>">>]
    ELSE LET w == SelectWheel(assets)
         IN  IF w = NoName
             THEN [wheel_asset |-> NoName, returns |-> TRUE,
                   msgs |-> FetchHead \o <<"No wheel file found in the latest release assets">>]
             ELSE [wheel_asset |-> w, returns |-> FALSE,
                   msgs |-> FetchHead \o <<"Found wheel file: <wheel_name>",
                                            "Download URL: <wheel_url>",
                                            "Downloading wheel file to: <output_path>">>]

\* Answers of the release feed: a status (or an exception), the asset list of
\* a 200 response, and whether an error body parses as JSON.
FeedAnswers ==
    {<<"200", a, TRUE>> : a \in AssetLists} \cup
    {<<"404", << >>, j>> : j \in BOOLEAN} \cup {<<"raise", << >>, TRUE>>}

\* Line 557, first half: the call of download_latest_wheel up to line 290.
FetchFeed ==
    /\ pc = "fetch_feed"
    /\ Frame
    /\ UNCHANGED <<condaHome, exitCode>>
    /\ Called("download_latest_wheel")
    /\ \E a \in FeedAnswers :
        LET r == FetchFeedResult(a[1], a[2], a[3])
        IN  /\ release' = [assets |-> a[2], wheel_asset |-> r.wheel_asset]
            /\ obs' = [obs EXCEPT !.feed = a[1]]
            /\ m' = [m EXCEPT !.wheel_path = NoName]
            /\ reported' = IF r.returns THEN "download" ELSE reported
            /\ Go(IF r.returns THEN "download_check" ELSE "download_asset",
                   disk, << >>, r.msgs)

\* download_latest_wheel() returning the path also when the asset request
\* answered with another status than 200.
DownloadAssetResultKeepsPath(status, name, size) ==
    IF status = "raise"
    THEN [path |-> NoName, written |-> FALSE, msgs |-> <<FetchError>>]
    ELSE IF status # "200"
    THEN [path |-> name, written |-> FALSE,
          msgs |-> <<"Failed to download wheel file. Status code: <status_code>">>]
    ELSE IF TooSmall(size)
    THEN [path |-> NoName, written |-> TRUE,
          msgs |-> <<"Downloaded file size: <file_size> bytes",
                     "ERROR: Downloaded file is too small, likely not a valid wheel file">>]
    ELSE [path |-> name, written |-> TRUE,
          msgs |-> <<"Downloaded file size: <file_size> bytes",
                     "Successfully downloaded wheel file to: <output_path>">>]

\* download_latest_wheel(), lines 291-328: the asset request, the file written
\* and the size check.  The path returned (NoName for None), whether a file
\* was written, and the messages logged.
DownloadAssetResult(status, name, size) ==
    IF status = "raise"
    THEN [path |-> NoName, written |-> FALSE, msgs |-> <<FetchError>>]
    ELSE IF status # "200"
    THEN [path |-> NoName, written |-> FALSE,
          msgs |-> <<"Failed to download wheel file. Status code: <status_code>">>]
    ELSE IF TooSmall(size)
    THEN [path |-> NoName, written |-> TRUE,
          msgs |-> <<"Downloaded file size: <file_size> bytes",
                     "ERROR: Downloaded file is too small, likely not a valid wheel file">>]
    ELSE [path |-> name, written |-> TRUE,
          msgs |-> <<"Downloaded file size: <file_size> bytes",
                     "Successfully downloaded wheel file to: <output_path>">>]

\* Answers of the asset download: a status (or an exception) and the size of
\* the body of a 200 response.
DownloadAnswers == {<<"200", n>> : n \in FileSizes} \cup {<<"500", 0>>, <<"raise", 0>>}

\* Line 557, second half: download_latest_wheel from line 291 to its return.
DownloadAsset ==
    /\ pc = "download_asset"
    /\ Frame
    /\ UNCHANGED <<condaHome, exitCode, calls>>
    /\ \E a \in DownloadAnswers :
        LET r == DownloadAssetResult(a[1], release.wheel_asset, a[2])
            d == IF r.written
                 THEN [disk EXCEPT !.wheel = release.wheel_asset, !.wheelSize = a[2]]
                 ELSE disk
        IN  /\ release' = [assets |-> << >>, wheel_asset |-> NoName]
            /\ obs' = [obs EXCEPT !.download = a[1]]
            /\ m' = [m EXCEPT !.wheel_path = r.path]
            /\ reported' = IF r.path = NoName THEN "download" ELSE reported
            /\ Go("download_check", d, << >>, r.msgs)

\* os.path.isfile(wheel_path)
IsFile(d, path) == d.dir /\ d.wheels /\ path # NoName /\ d.wheel = path

\* Lines 559-561.
DownloadFailedMsg ==
    "Failed to download Open WebUI wheel file. Please check your internet connection and try again."

\* download_latest_wheel(), lines 254-328 as a whole: the value it returns
\* (NoName for None) when the release feed answers `feed` and the asset
\* request answers `dl`.
FetchResult(feed, dl) ==
    LET f == FetchFeedResult(feed[1], feed[2], feed[3])
    IN  IF f.returns THEN NoName
        ELSE DownloadAssetResult(dl[1], f.wheel_asset, dl[2]).path

\* The branch of download_latest_wheel() those answers take: the failure
\* cause, or "none" when the file is downloaded and large enough.
FetchCause(feed, dl) ==
    IF feed[1] # "200" THEN "feed-unreachable"
    ELSE IF SelectWheel(feed[2]) = NoName THEN "no-matching-asset"
    ELSE IF dl[1] # "200" THEN "download-failed"
    ELSE IF TooSmall(dl[2]) THEN "file-too-small"
    ELSE "none"

\* The check with the `return 1` left out.
DownloadCheckNoReturn ==
    /\ pc = "download_check"
    /\ Frame
    /\ UNCHANGED <<condaHome, m, calls, obs, reported, exitCode>>
    /\ release' = [assets |-> << >>, wheel_asset |-> NoName]
    /\ Go("install_wheel", disk, << >>,
          IF m.wheel_path = NoName \/ ~IsFile(disk, m.wheel_path)
          THEN <<DownloadFailedMsg>> ELSE << >>)

DownloadCheck ==
    /\ pc = "download_check"
    /\ Frame
    /\ UNCHANGED <<condaHome, m, calls, obs, reported>>
    /\ release' = [assets |-> << >>, wheel_asset |-> NoName]
    /\ IF m.wheel_path = NoName \/ ~IsFile(disk, m.wheel_path)
       THEN Return("1", disk, << >>, <<DownloadFailedMsg>>)
       ELSE /\ Go("install_wheel", disk, << >>, << >>)
            /\ UNCHANGED exitCode

\* The lines of pip's output that install_wheel logs: line.strip(), if line.
RECURSIVE Stripped(_)
Stripped(lines) ==
    IF lines = << >> THEN << >>
    ELSE IF Head(lines) = "" THEN Stripped(Tail(lines))
    ELSE <<Head(lines)>> \o Stripped(Tail(lines))

\* install_wheel(), lines 331-383, from pip's output and exit status ("raise"
\* when starting it raised).
InstallHead ==
    <<"******************************", "* Wheel File Installation *",
      "******************************", "Installing wheel from: <wheel_path>",
      "This may take a few minutes. Please wait...">>

\* install_wheel() reporting success whatever pip's exit status.
InstallWheelResultIgnoringStatus(rc, out) ==
    IF rc = "raise"
    THEN [success |-> FALSE,
          msgs |-> InstallHead \o <<"ERROR: Exception during pip installation: <e>">>]
    ELSE [success |-> TRUE,
          msgs |-> InstallHead \o Stripped(out) \o
                   <<"Open WebUI wheel file successfully installed",
                     "Installation completed successfully">>]

InstallWheelResult(rc, out) ==
    IF rc = "raise"
    THEN [success |-> FALSE,
          msgs |-> InstallHead \o <<"ERROR: Exception during pip installation: <e>">>]
    ELSE IF rc = "0"
    THEN [success |-> TRUE,
          msgs |-> InstallHead \o Stripped(out) \o
                   <<"Open WebUI wheel file successfully installed",
                     "Installation completed successfully">>]
    ELSE [success |-> FALSE,
          msgs |-> InstallHead \o Stripped(out) \o
                   <<"ERROR: Failed to install Open WebUI wheel file",
                     "Pip installation returned error code: <return_code>">>]

PipAnswers ==
    {<<rc, out>> : rc \in {"0", "1"}, out \in {<< >>, <<"", "Processing <wheel_path>">>}}
    \cup {<<"raise", << >>>>}

\* Line 564.
InstallWheel ==
    /\ pc = "install_wheel"
    /\ Frame
    /\ UNCHANGED <<condaHome, release, exitCode>>
    /\ Called("install_wheel")
    /\ \E a \in PipAnswers :
        LET r == InstallWheelResult(a[1], a[2])
        IN  /\ m' = [m EXCEPT !.install_success = r.success]
            /\ obs' = [obs EXCEPT !.pip = a[1]]
            /\ reported' = IF r.success THEN reported ELSE "install"
            /\ Go("install_check", disk, << >>, r.msgs)

\* Lines 566-568.
InstallFailedMsg ==
    "Failed to install Open WebUI wheel file. Please check the logs for details."

\* The check with the `return 1` left out.
InstallCheckNoReturn ==
    /\ pc = "install_check"
    /\ Frame
    /\ UNCHANGED <<condaHome, m, release, calls, obs, reported, exitCode>>
    /\ Go("shortcuts", disk, << >>,
          IF ~m.install_success THEN <<InstallFailedMsg>> ELSE << >>)

InstallCheck ==
    /\ pc = "install_check"
    /\ Frame
    /\ UNCHANGED <<condaHome, m, release, calls, obs, reported>>
    /\ IF ~m.install_success
       THEN Return("1", disk, << >>, <<InstallFailedMsg>>)
       ELSE /\ Go("shortcuts", disk, << >>, << >>)
            /\ UNCHANGED exitCode

\* create_shortcuts(), lines 386-442, from the platform and, on Windows, the
\* outcome of the PowerShell script ("raise" when writing or running it
\* raised) and of deleting it afterwards.
CreateShortcutsResult(windows, script, removed) ==
    IF ~windows
    THEN [success |-> TRUE,
          msgs |-> <<"Creating shortcuts...",
                     "Shortcut creation not implemented for this platform">>]
    ELSE IF script = "raise"
    THEN [success |-> FALSE,
          msgs |-> <<"Creating shortcuts...", "Error creating shortcuts: <e>">>]
    ELSE LET ran == IF script = "0"
                    THEN <<"Creating shortcuts...", "PowerShell script executed successfully">>
                    ELSE <<"Creating shortcuts...",
                           "PowerShell script failed with return code: <returncode>",
                           "PowerShell script stdout: <stdout>",
                           "PowerShell script stderr: <stderr>">>
         IN  IF ~removed
             THEN [success |-> FALSE, msgs |-> ran \o <<"Error creating shortcuts: <e>">>]
             ELSE [success |-> TRUE,
                   msgs |-> ran \o <<"Created desktop shortcut at: <shortcut_path>">>]

\* platform.system() is Windows or not; on Windows, the script's outcome.
ShortcutAnswers ==
    {<<FALSE, "none", TRUE>>, <<TRUE, "raise", TRUE>>} \cup
    {<<TRUE, rc, rm>> : rc \in {"0", "1"}, rm \in BOOLEAN}

\* Lines 570-574: create the shortcuts unless disabled; warn when that failed.
ShortcutWarning == "Warning: Failed to create shortcuts"

\* Step 6 treated like the other steps: a failure returns 1.
ShortcutsFatal ==
    /\ pc = "shortcuts"
    /\ Frame
    /\ UNCHANGED <<condaHome, release, reported>>
    /\ IF args.no_shortcuts
       THEN /\ Go("complete", disk, << >>, << >>)
            /\ UNCHANGED <<m, calls, obs, exitCode>>
       ELSE /\ Called("create_shortcuts")
            /\ \E a \in ShortcutAnswers :
                LET r == CreateShortcutsResult(a[1], a[2], a[3])
                IN  /\ m' = [m EXCEPT !.shortcut_success = r.success]
                    /\ obs' = [obs EXCEPT !.script = a[2]]
                    /\ IF r.success
                       THEN Go("complete", disk, << >>, r.msgs) /\ UNCHANGED exitCode
                       ELSE Return("1", disk, << >>, r.msgs \o <<ShortcutWarning>>)

Shortcuts ==
    /\ pc = "shortcuts"
    /\ Frame
    /\ UNCHANGED <<condaHome, release, reported, exitCode>>
    /\ IF args.no_shortcuts
       THEN /\ Go("complete", disk, << >>, << >>)
            /\ UNCHANGED <<m, calls, obs>>
       ELSE /\ Called("create_shortcuts")
            /\ \E a \in ShortcutAnswers :
                LET r == CreateShortcutsResult(a[1], a[2], a[3])
                    msgs == IF r.success THEN r.msgs ELSE r.msgs \o <<ShortcutWarning>>
                IN  /\ m' = [m EXCEPT !.shortcut_success = r.success]
                    /\ obs' = [obs EXCEPT !.script = a[2]]
                    /\ Go("complete", disk, << >>, msgs)

\* Lines 576-584.
CompletedMsgs ==
    <<"*** INSTALLATION COMPLETED ***", "AMD AI UX installation completed successfully!",
      "You can start AMD AI UX by running:", "  conda activate <env_path>",
      "  open-webui", "Or by using the desktop shortcut if created">>

Complete ==
    /\ pc = "complete"
    /\ Frame
    /\ UNCHANGED <<condaHome, m, release, calls, obs, reported>>
    /\ Return("0", disk, << >>, CompletedMsgs)

Next ==
    \/ Start
    \/ CheckExisting
    \/ PromptRemove
    \/ RemoveEnv
    \/ RemoveDir
    \/ CheckCondaStep
    \/ CondaBranch
    \/ PromptConda
    \/ InstallMiniconda
    \/ MinicondaCheck
    \/ CreateEnv
    \/ EnvCheck
    \/ FetchFeed
    \/ DownloadAsset
    \/ DownloadCheck
    \/ InstallWheel
    \/ InstallCheck
    \/ Shortcuts
    \/ Complete

Spec == Init /\ [][Next]_vars

\* ================================================================== claims
Range(seq) == {seq[i] : i \in 1..Len(seq)}

\* The install directory apart from its log file.
Files(d) == [dir |-> d.dir, old |-> d.old, env |-> d.env, wheels |-> d.wheels,
             wheel |-> d.wheel, wheelSize |-> d.wheelSize]

\* Everything in d is still there in e: no file or directory has gone and the
\* log has only grown.
Kept(d, e) ==
    /\ d.dir => e.dir
    /\ d.old => e.old
    /\ d.env => e.env
    /\ d.wheels => e.wheels
    /\ d.wheel # NoName => (e.wheel = d.wheel /\ e.wheelSize = d.wheelSize)
    /\ d.logExists => (e.logExists /\ IsPrefix(d.logLines, e.logLines))

\* Steps 1-5 as the collaborators answered them, not as main() recorded them.
CleanupSucceeded == obs.rm \in {"none", "ok"}
ManagerResolved == m.conda_installed \/ (obs.mcInstall = "0" /\ m.miniconda_success)
EnvironmentProvisioned == obs.envCreate = "0" /\ disk.env
ArtifactAcquired ==
    /\ obs.feed = "200" /\ obs.download = "200"
    /\ disk.wheels /\ disk.wheel # NoName /\ disk.wheelSize >= MIN_WHEEL_SIZE
ArtifactInstalled == obs.pip = "0"

\* C1: main() returns 0 only if cleanup, runtime-manager resolution,
\* environment provisioning, artifact acquisition and artifact installation
\* all succeeded; and once artifact installation has succeeded the run
\* returns 0 whatever shortcut registration does.
C1_ExitZeroIffStepsOneToFive ==
    pc = "done" =>
        /\ exitCode = "0" =>
             /\ CleanupSucceeded
             /\ ManagerResolved
             /\ EnvironmentProvisioned
             /\ ArtifactAcquired
             /\ ArtifactInstalled
        /\ ArtifactInstalled => exitCode = "0"

C1_Witness ==
    /\ pc = "done" /\ exitCode = "0"
    /\ calls["create_shortcuts"] = 1 /\ ~m.shortcut_success

\* C2: once a step has reported failure, the only thing main() still does is
\* return 1: no collaborator is used again, nothing on disk is removed, and a
\* runtime manager installed by the run stays installed.
C2_FailureStopsThePipeline ==
    [][reported # "none" =>
          /\ calls' = calls
          /\ pc' = "done" /\ exitCode' = "1"
          /\ Kept(disk, disk')
          /\ condaHome' = condaHome]_vars

C2_Witness ==
    /\ pc = "done" /\ exitCode = "1" /\ reported = "install"
    /\ disk.env /\ disk.wheel # NoName /\ condaHome

\* C3: when the install directory is empty or absent at the start of the
\* run, nothing is deleted and no confirmation prompt for the cleanup appears.
C3_EmptyDirectoryNeedsNoCleanup ==
    ~NonEmpty(disk0) =>
        /\ calls["rmtree"] = 0
        /\ calls["env_remove"] = 0
        /\ calls["prompt_remove"] = 0

\* The user was asked whether to remove the installation and said no.
Declined ==
    /\ calls["prompt_remove"] = 1 /\ calls["prompt_conda"] = 0
    /\ m.user_input # None /\ Lower(m.user_input) # "y"

\* C4 as stated: with a non-empty directory and assume_yes false, a declined
\* confirmation ends the run with exit code 1 and the directory exactly as it
\* was.
C4_DeclinedLeavesDirectoryUntouched ==
    (NonEmpty(disk0) /\ ~args.yes /\ Declined) =>
        /\ pc = "done" /\ exitCode = "1"
        /\ disk = disk0

\* C4 as amended: a declined confirmation ends the run with exit code 1 and
\* changes nothing in the directory except the installer's own log file,
\* which is created if missing and only gains lines.
C4_DeclinedTouchesOnlyTheLog ==
    (NonEmpty(disk0) /\ ~args.yes /\ Declined) =>
        /\ pc = "done" /\ exitCode = "1"
        /\ Files(disk) = Files(disk0)
        /\ IsPrefix(disk0.logLines, disk.logLines)
        /\ disk0.logExists => disk.logExists

C4_Witness ==
    /\ NonEmpty(disk0) /\ ~args.yes /\ Declined
    /\ pc = "done" /\ disk0.old /\ disk0.env
    /\ Len(disk.logLines) > Len(disk0.logLines)

\* Step 2 or a later step is about to run or has run.
PastCleanup ==
    \/ pc \in {"check_conda", "conda_branch", "prompt_conda", "install_miniconda",
               "miniconda_check", "create_env", "env_check", "fetch_feed",
               "download_asset", "download_check", "install_wheel",
               "install_check", "shortcuts", "complete"}
    \/ calls["probe"] > 0

\* C5: with assume_yes true and a non-empty directory, whenever runtime-manager
\* resolution or any later step is about to run or has run, the directory has
\* been deleted and recreated: nothing of what it held at the start is left.
C5_CleanupPrecedesProvisioning ==
    (args.yes /\ NonEmpty(disk0) /\ PastCleanup) =>
        /\ obs.rm = "ok"
        /\ calls["rmtree"] = 1
        /\ ~disk.old
        /\ "earlier run" \notin Range(disk.logLines)
        /\ disk.env => calls["create_conda_env"] = 1

C5_Witness ==
    /\ args.yes /\ disk0.old /\ disk0.env /\ disk0.logExists
    /\ calls["create_conda_env"] = 1 /\ disk.env /\ obs.rm = "ok"

\* The scenario of C6, seen at the end of the run: an empty directory, no
\* runtime manager found, assume_yes, every collaborator succeeding, a wheel
\* of 50,000 bytes, a writable log.
C6_Scenario ==
    /\ disk0 = [AbsentDisk EXCEPT !.dir = TRUE]
    /\ args.yes /\ logWritable
    /\ calls["probe"] = 1 /\ ~m.conda_installed
    /\ m.miniconda_success /\ m.env_success
    /\ obs.feed = "200" /\ obs.download = "200"
    /\ disk.wheel = ToolWhl /\ disk.wheelSize = 50000
    /\ obs.pip = "0"

\* C6: in that scenario the run ends with exit code 0, the log file holds
\* the start marker and the completion marker, and the wheel is under wheels/.
C6_EndToEnd ==
    (pc = "done" /\ C6_Scenario) =>
        /\ exitCode = "0"
        /\ disk.logExists
        /\ "*** INSTALLATION STARTED ***" \in Range(disk.logLines)
        /\ "*** INSTALLATION COMPLETED ***" \in Range(disk.logLines)
        /\ IsFile(disk, ToolWhl)

\* C7: when pip exits non-zero the run returns 1 and create_shortcuts is
\* never called, whether or not shortcuts were asked for.
C7_PipFailureIsFatal ==
    obs.pip = "1" =>
        /\ calls["create_shortcuts"] = 0
        /\ pc \in {"install_check", "done"}
        /\ pc = "done" => exitCode = "1"

C7_Witness ==
    /\ obs.pip = "1" /\ pc = "done" /\ exitCode = "1" /\ ~args.no_shortcuts

\* C8: when steps 1-5 succeeded and create_shortcuts reports failure, the
\* warning is logged (shown on the console, and written to the log file when
\* that can be written) and the run still returns 0.
C8_ShortcutFailureIsAWarning ==
    (ArtifactInstalled /\ calls["create_shortcuts"] = 1 /\ ~m.shortcut_success) =>
        /\ pc \in {"complete", "done"}
        /\ ShortcutWarning \in Range(console)
        /\ Written(disk) => ShortcutWarning \in Range(disk.logLines)
        /\ pc = "done" => exitCode = "0"

C8_Witness ==
    /\ calls["create_shortcuts"] = 1 /\ ~m.shortcut_success
    /\ pc = "done" /\ exitCode = "0" /\ logWritable

\* A name whose last four characters are ".whl".
IsWheelName(n) ==
    /\ Len(n) >= 4
    /\ n[Len(n) - 3] = "." /\ n[Len(n) - 2] = "w"
    /\ n[Len(n) - 1] = "h" /\ n[Len(n)] = "l"

\* C9: out of the asset list of a 200 feed response the fetcher takes the
\* first asset, in feed order, whose name ends in ".whl", and none when no
\* name does; of tool.tar.gz, tool.whl, readme.txt it takes tool.whl.
C9_FirstWheelInFeedOrder ==
    (obs.feed = "200" /\ obs.download = "none"
        /\ pc \in {"download_asset", "download_check"}) =>
        LET a == release.assets
            hits == {i \in 1..Len(a) : IsWheelName(a[i])}
        IN  /\ hits = {} => (release.wheel_asset = NoName /\ pc = "download_check")
            /\ hits # {} =>
                 /\ pc = "download_asset"
                 /\ \E i \in hits :
                      /\ \A j \in hits : i <= j
                      /\ release.wheel_asset = a[i]

C9_Witness ==
    /\ pc = "download_asset"
    /\ release.assets = <<ToolTarGz, ToolWhl, ReadmeTxt>>
    /\ release.wheel_asset = ToolWhl

\* C10: a downloaded file smaller than 10000 bytes is rejected although both
\* responses had status 200: no path is returned, install_wheel is never
\* called and the run returns 1.
C10_UndersizedWheelIsRejected ==
    (obs.feed = "200" /\ obs.download = "200" /\ disk.wheelSize < MIN_WHEEL_SIZE) =>
        /\ m.wheel_path = NoName
        /\ calls["install_wheel"] = 0
        /\ pc \in {"download_check", "done"}
        /\ pc = "done" => exitCode = "1"

C10_Witness ==
    /\ obs.feed = "200" /\ obs.download = "200" /\ disk.wheelSize = 9999
    /\ disk.wheel # NoName /\ pc = "done" /\ exitCode = "1"


\* download_latest_wheel has returned.
FetchReturned == calls["download_latest_wheel"] = 1 /\ pc # "download_asset"

\* The four causes of a failed fetch, from what the feed and the download
\* answered.
FeedUnreachable == FetchReturned /\ obs.feed \in {"404", "raise"}
NoMatchingAsset == FetchReturned /\ obs.feed = "200" /\ obs.download = "none"
DownloadFailed == FetchReturned /\ obs.download \in {"500", "raise"}
FileTooSmall ==
    FetchReturned /\ obs.download = "200" /\ disk.wheelSize < MIN_WHEEL_SIZE

\* C11: a non-200 feed response, no asset with the .whl extension, a failed
\* asset download and an undersized file each make the fetch report failure;
\* the run then returns 1 and neither install_wheel nor create_shortcuts is
\* called.
C11_EveryFetchFailureIsFatal ==
    (FeedUnreachable \/ NoMatchingAsset \/ DownloadFailed \/ FileTooSmall) =>
        /\ m.wheel_path = NoName
        /\ reported = "download"
        /\ calls["install_wheel"] = 0
        /\ calls["create_shortcuts"] = 0
        /\ pc \in {"download_check", "done"}
        /\ pc = "done" => exitCode = "1"

C11_Witness ==
    /\ NoMatchingAsset /\ ~FeedUnreachable /\ ~DownloadFailed /\ ~FileTooSmall
    /\ pc = "done" /\ exitCode = "1"

\* C12: main() always ends by returning 0 or 1: no exception leaves it,
\* whichever collaborator fails.
C12_NoExceptionEscapes == pc # "raised"

\* C13: the log file is append-only during the run: a step never removes the
\* file nor any line written to it before.
C13_LogIsAppendOnly ==
    [][disk.logExists =>
          (disk'.logExists /\ IsPrefix(disk.logLines, disk'.logLines))]_vars


\* C14: with --yes no confirmation prompt is ever issued: neither input() call
\* is made or about to be made, and neither prompt text has been shown,
\* whatever the directory held and whatever the probe answered.
C14_YesSuppressesEveryPrompt ==
    args.yes =>
        /\ calls["prompt_remove"] = 0
        /\ calls["prompt_conda"] = 0
        /\ pc \notin {"prompt_remove", "prompt_conda"}
        /\ RemovePrompt \notin Range(console)
        /\ CondaPrompt \notin Range(console)

\* With --yes a previous installation was removed and, the probe having found
\* no runtime manager, the installer was invoked.
C14_Witness ==
    /\ args.yes
    /\ NonEmpty(disk0)
    /\ calls["rmtree"] = 1
    /\ calls["probe"] = 1 /\ ~m.conda_installed
    /\ calls["install_miniconda"] = 1


\* Positions of main() after the call of each step's collaborator.
AfterProbe ==
    {"conda_branch", "prompt_conda", "install_miniconda", "miniconda_check",
     "create_env", "env_check", "fetch_feed", "download_asset", "download_check",
     "install_wheel", "install_check", "shortcuts", "complete"}
AfterInstaller ==
    {"miniconda_check"}
AfterProvisioner ==
    {"env_check", "fetch_feed", "download_asset", "download_check",
     "install_wheel", "install_check", "shortcuts", "complete"}
AfterFetcher ==
    {"download_asset", "download_check", "install_wheel", "install_check",
     "shortcuts", "complete"}
AfterInstall == {"install_check", "shortcuts", "complete"}

\* Times check_conda() was called in this run, by cleanup and by step 2.
ProbeUses == calls["probe"] + calls["probe_cleanup"]

\* Every step a run has reached was attempted exactly once, and a step that
\* reported failure is followed by `return 1` and by no other call.
StepsOnceAndFatalBranchesReturn ==
    /\ \A c \in Collaborators : calls[c] <= 1
    /\ pc \in AfterProbe => calls["probe"] = 1
    /\ pc \in AfterInstaller => calls["install_miniconda"] = 1
    /\ pc \in AfterProvisioner => calls["create_conda_env"] = 1
    /\ pc \in AfterFetcher => calls["download_latest_wheel"] = 1
    /\ pc \in AfterInstall => calls["install_wheel"] = 1
    /\ pc = "complete" => calls["create_shortcuts"] = (IF args.no_shortcuts THEN 0 ELSE 1)
    /\ reported = "cleanup" => pc = "done" /\ exitCode = "1" /\ calls["probe"] = 0
    /\ reported = "miniconda" =>
          /\ pc \in {"miniconda_check", "done"}
          /\ calls["create_conda_env"] = 0
    /\ reported = "env" =>
          /\ pc \in {"env_check", "done"}
          /\ calls["download_latest_wheel"] = 0
    /\ reported = "download" =>
          /\ pc \in {"download_check", "done"}
          /\ calls["install_wheel"] = 0
    /\ reported = "install" =>
          /\ pc \in {"install_check", "done"}
          /\ calls["create_shortcuts"] = 0
    /\ (reported # "none" /\ pc = "done") => exitCode = "1"

\* C15, as claimed: no retries, each step and each collaborator behind it
\* (the runtime-manager probe among them) is attempted at most once in a run
\* and exactly once when the run reaches its step, and every fatal branch
\* returns 1 at once.
C15_EachCollaboratorAtMostOnce ==
    /\ StepsOnceAndFatalBranchesReturn
    /\ ProbeUses <= 1

\* C15, amended: each step is attempted exactly once when reached, each
\* collaborator at most once by its step, and every fatal branch returns 1 at
\* once; the runtime-manager probe alone is used a second time, by the
\* cleanup, and only when the directory held an environment at run start.
C15_NoRetries ==
    /\ StepsOnceAndFatalBranchesReturn
    /\ ProbeUses <= 2
    /\ calls["probe_cleanup"] = 1 => disk0.env
    /\ calls["env_remove"] = 1 => calls["probe_cleanup"] = 1

\* A successful run that used the probe twice and every step once, the
\* runtime-manager installer included.
C15_Witness ==
    /\ pc = "done" /\ exitCode = "0"
    /\ ProbeUses = 2
    /\ calls["install_miniconda"] = 1
    /\ calls["create_conda_env"] = 1
    /\ calls["download_latest_wheel"] = 1
    /\ calls["install_wheel"] = 1
    /\ calls["create_shortcuts"] = 1


\* The step-2 probe has returned, with or without a runtime manager.
ManagerFound == calls["probe"] = 1 /\ m.conda_installed
ManagerAbsent == calls["probe"] = 1 /\ ~m.conda_installed

\* The user answered the step-2 prompt, with something other than y/Y, or
\* with y/Y.
DeclinedConda ==
    calls["prompt_conda"] = 1 /\ m.user_input # None /\ Lower(m.user_input) # "y"
AcceptedConda ==
    calls["prompt_conda"] = 1 /\ m.user_input # None /\ Lower(m.user_input) = "y"

\* C16: a manager found by the probe means no prompt and no installer; an
\* absent one without --yes means a prompt, and a negative answer ends the
\* run with 1 without the installer; with --yes or a positive answer the
\* installer is invoked, and its failure ends the run with 1 before
\* create_conda_env is called.
C16_RuntimeManagerResolution ==
    /\ ManagerFound =>
          /\ calls["prompt_conda"] = 0 /\ calls["install_miniconda"] = 0
          /\ pc \notin {"prompt_conda", "install_miniconda", "miniconda_check"}
          /\ CondaPrompt \notin Range(console)
    /\ DeclinedConda =>
          /\ pc = "done" /\ exitCode = "1"
          /\ calls["install_miniconda"] = 0 /\ calls["create_conda_env"] = 0
    /\ calls["install_miniconda"] = 1 =>
          /\ ManagerAbsent
          /\ args.yes \/ AcceptedConda
    /\ (ManagerAbsent /\ pc \in AfterProbe \ {"conda_branch", "prompt_conda", "install_miniconda"}) =>
          calls["install_miniconda"] = 1
    /\ (ManagerAbsent /\ pc = "done" /\ calls["install_miniconda"] = 0) => DeclinedConda
    /\ (calls["install_miniconda"] = 1 /\ ~m.miniconda_success) =>
          /\ calls["create_conda_env"] = 0
          /\ pc \in {"miniconda_check", "done"}
          /\ pc = "done" => exitCode = "1"

\* The user agreed to the installation and the installer failed: the run
\* ended with 1 before provisioning.
C16_Witness ==
    /\ ManagerAbsent /\ ~args.yes /\ AcceptedConda
    /\ calls["install_miniconda"] = 1 /\ ~m.miniconda_success
    /\ pc = "done" /\ exitCode = "1"


\* C17: in a confirmed cleanup a failed `conda env remove` (a non-zero exit,
\* or the command failing to run) never aborts the run, the deletion of the
\* directory comes next; a failure to delete or recreate the directory ends
\* the run with 1 and no later step runs.
C17_CleanupAsymmetry ==
    /\ obs.envRemove \in {"1", "raise"} => pc = "rmtree"
    /\ obs.rm \in {"rmtree failed", "makedirs failed"} =>
          /\ pc = "done" /\ exitCode = "1"
          /\ calls["probe"] = 0 /\ calls["install_miniconda"] = 0
          /\ calls["create_conda_env"] = 0 /\ calls["download_latest_wheel"] = 0
          /\ calls["install_wheel"] = 0 /\ calls["create_shortcuts"] = 0


\* C18: the probe of step 2 reports a runtime manager exactly when the locate
\* command exited with 0 and printed something, and the path it returns is
\* then the first line printed; an exit of 0 with no output counts as absent.
C18_ProbeNeedsOutput ==
    pc = "conda_branch" =>
        /\ m.conda_installed <=> (obs.probeRc = "0" /\ obs.probeOut # << >>)
        /\ m.conda_installed =>
              (obs.probeOut # << >> /\ m.conda_path = obs.probeOut[1])


\* The failure cause of the fetch of this run, "none" when it has not failed.
Cause ==
    IF FeedUnreachable THEN "feed-unreachable"
    ELSE IF NoMatchingAsset THEN "no-matching-asset"
    ELSE IF DownloadFailed THEN "download-failed"
    ELSE IF FileTooSmall THEN "file-too-small"
    ELSE "none"

\* C19, as claimed: the result of a failed fetch tells its cause: no fetch
\* failing for another cause returns to main() what this one returned.
C19_ResultTellsTheCause ==
    Cause # "none" =>
        \A feed \in FeedAnswers, dl \in DownloadAnswers :
            FetchCause(feed, dl) \notin {"none", Cause} =>
                FetchResult(feed, dl) # m.wheel_path

\* C19, amended: the fetcher returns the file path or None; a failed fetch
\* returns None whatever its cause, and the cause is told only by the
\* messages logged, a successful fetch returning the name of the file written.
C19_FailedFetchReturnsNone ==
    /\ Cause # "none" => m.wheel_path = NoName
    /\ (FetchReturned /\ Cause = "none") =>
          (m.wheel_path # NoName /\ IsFile(disk, m.wheel_path))
    /\ (FeedUnreachable /\ obs.feed = "404") =>
          "Failed to fetch release information. Status code: <status_code>" \in Range(console)
    /\ NoMatchingAsset =>
          "No wheel file found in the latest release assets" \in Range(console)
    /\ (DownloadFailed /\ obs.download = "500") =>
          "Failed to download wheel file. Status code: <status_code>" \in Range(console)
    /\ FileTooSmall =>
          "ERROR: Downloaded file is too small, likely not a valid wheel file" \in Range(console)
    /\ (FetchReturned /\ "raise" \in {obs.feed, obs.download}) =>
          FetchError \in Range(console)

\* The asset request answered with an error status and main() gave up.
C19_Witness ==
    /\ DownloadFailed /\ obs.download = "500"
    /\ m.wheel_path = NoName
    /\ pc = "done" /\ exitCode = "1"


\* C20: when the directory held something at run start, the step-2 prompt is
\* shown only after the confirmed cleanup has deleted and recreated the
\* directory: what was there is gone, and a declined step-2 confirmation ends
\* the run with 1 on a directory that is not as it was at run start.
C20_DeclinedStepTwoAfterCleanup ==
    (NonEmpty(disk0) /\ (pc = "prompt_conda" \/ DeclinedConda)) =>
        /\ calls["prompt_remove"] = 1
        /\ calls["rmtree"] = 1 /\ obs.rm = "ok"
        /\ DeletedMsg \in Range(console)
        /\ disk.dir /\ ~disk.old /\ ~disk.env
        /\ "earlier run" \notin Range(disk.logLines)
        /\ disk # disk0
        /\ DeclinedConda => (pc = "done" /\ exitCode = "1")

\* A previous installation with other files in it was removed and the user
\* then declined the installation of the runtime manager.
C20_Witness ==
    /\ disk0.old /\ disk0.env
    /\ DeclinedConda
    /\ calls["rmtree"] = 1
    /\ pc = "done" /\ exitCode = "1"


\* C21: when the feed answered 200 with a wheel among its assets and the
\* download answered 200, the fetcher returns the path of the file written
\* exactly when that file has at least 10000 bytes: 10000 bytes are accepted,
\* 9999 bytes are rejected.
C21_SizeThresholdBoundary ==
    (FetchReturned /\ obs.feed = "200" /\ obs.download = "200") =>
        /\ disk.wheel # NoName
        /\ m.wheel_path # NoName <=> disk.wheelSize >= 10000
        /\ m.wheel_path # NoName => m.wheel_path = disk.wheel
        /\ disk.wheelSize = 10000 => m.wheel_path = disk.wheel
        /\ disk.wheelSize = 9999 => m.wheel_path = NoName

\* A file of exactly 10000 bytes was downloaded and its path returned.
C21_Witness ==
    /\ FetchReturned /\ obs.feed = "200" /\ obs.download = "200"
    /\ disk.wheelSize = 10000
    /\ m.wheel_path # NoName


\* `conda init` exited with a non-zero status after the installer succeeded.
InitExitedNonZero == pc = "miniconda_check" /\ obs.mcInit = "1"

\* The shortcut script exited with a non-zero status.
ScriptExitedNonZero == calls["create_shortcuts"] = 1 /\ obs.script = "1"

\* create_shortcuts() went through its except branch.
ShortcutRaised == "Error creating shortcuts: <e>" \in Range(console)

\* What the two exit statuses leave behind: step 2 has succeeded with the
\* path of the new manager; the registrar reports failure only after an
\* exception, so without one no warning is shown, and the run returns 0.
ExitStatusIgnored ==
    /\ InitExitedNonZero =>
          /\ obs.mcInstall = "0"
          /\ m.miniconda_success /\ m.conda_path = MinicondaPath
          /\ reported # "miniconda"
    /\ calls["create_shortcuts"] = 1 => (m.shortcut_success <=> ~ShortcutRaised)
    /\ ScriptExitedNonZero =>
          /\ pc \in {"complete", "done"}
          /\ pc = "done" => exitCode = "0"
          /\ ~ShortcutRaised =>
                (m.shortcut_success /\ ShortcutWarning \notin Range(console))

\* C22: neither exit status changes the exit code or the steps taken: after
\* a non-zero `conda init` step 2 has succeeded and main() goes on to
\* create_conda_env; after a non-zero exit of the shortcut script the
\* registrar still reports success, no warning is logged and the run returns
\* 0; only an exception makes the registrar report failure.
C22_AuxiliaryExitStatusIgnored ==
    [][/\ ExitStatusIgnored'
       /\ InitExitedNonZero => (pc' = "create_env" /\ exitCode' = "none")]_vars

\* A run that installed the runtime manager itself ended with 0 although the
\* shortcut script exited with a non-zero status, without any warning.
C22_Witness ==
    /\ ScriptExitedNonZero /\ m.shortcut_success
    /\ ShortcutWarning \notin Range(console)
    /\ calls["install_miniconda"] = 1 /\ m.miniconda_success
    /\ pc = "done" /\ exitCode = "0"

====
